---- MODULE Spec2Model ----
(***************************************************************************)
(* MuSig2 (two nonces per party) over Ed25519, src/protocols/musig2/mod.rs. *)
(*                                                                         *)
(* The curve group is scaled down to the subgroup of order GroupOrder of   *)
(* the multiplicative group modulo GroupModulus: a point is an element of  *)
(* that subgroup, point addition is multiplication modulo GroupModulus,    *)
(* scalar multiplication is exponentiation and Point::zero() is 1.         *)
(* Scalars are the integers modulo GroupOrder.                             *)
(***************************************************************************)
EXTENDS Integers, Sequences, FiniteSets, TLC

\* ------------------------------------------------------------------------
\* Bounds of the model
\* ------------------------------------------------------------------------
MaxKeys == 3      \* longest key list given to key_aggregation_n
MaxN == 2         \* most parties of a signing session
MaxPriv == 2      \* private scalars of a session are drawn from 1..MaxPriv
MaxSeed == 2      \* seeds of the random generators of a session
MaxMsg == 2       \* number of distinct messages
MaxOthers == 2    \* most other parties around a single caller
MaxGens == 2      \* most generate_partial_nonces calls of a single caller
MaxUses == 2      \* most partial_sign calls on one nonce bundle
MaxSigs == 2      \* most partial signatures given to the aggregation alone
MaxCalls == 2     \* most calls of generate_partial_nonces on one rng

\* ------------------------------------------------------------------------
\* Curve arithmetic (curv::elliptic::curves::{Ed25519, Point, Scalar})
\* ------------------------------------------------------------------------
NUMBER_OF_NONCES == 2

GroupModulus == 29
GroupOrder == 7
Generator == 16

Scalars == 0..(GroupOrder - 1)

ScalarAdd(a, b) == (a + b) % GroupOrder
ScalarMul(a, b) == (a * b) % GroupOrder

PointZero == 1
PointAdd(P, Q) == (P * Q) % GroupModulus

RECURSIVE PointMul(_, _)
PointMul(P, s) == IF s = 0 THEN PointZero ELSE PointAdd(P, PointMul(P, s - 1))

GeneratorMul(s) == PointMul(Generator, s)

Points == {GeneratorMul(s) : s \in Scalars}

\* Point::to_bytes: the little-endian digits of the group element; the
\* uncompressed form carries one more (zero) digit than the compressed one.
ToBytes(P, compressed) ==
    IF compressed THEN <<P % 8, P \div 8>> ELSE <<P % 8, P \div 8, 0>>

\* Scalar::to_bytes
ScalarToBytes(s) == <<s % 8, s \div 8>>

\* Ord for byte strings: lexicographic, a proper prefix is smaller.
RECURSIVE BytesLess(_, _)
BytesLess(a, b) ==
    IF Len(b) = 0 THEN FALSE
    ELSE IF Len(a) = 0 THEN TRUE
    ELSE IF Head(a) # Head(b) THEN Head(a) < Head(b)
    ELSE BytesLess(Tail(a), Tail(b))

\* Sha512::new().chain(..)...result_scalar(): the digest of the whole byte
\* string, reduced modulo the group order.
RECURSIVE Sha512(_, _)
Sha512(h, bytes) ==
    IF Len(bytes) = 0 THEN h
    ELSE Sha512(((h + Head(bytes) + 1) * (h + Head(bytes) + 1) + 3 * h + 5) % 251,
                Tail(bytes))

HashToScalar(bytes) == Sha512(17, bytes) % GroupOrder

\* ------------------------------------------------------------------------
\* PublicKeyAgg::key_aggregation_n
\* ------------------------------------------------------------------------
\* public_keys.sort_by(|l, r| l.to_bytes(false).cmp(&r.to_bytes(false)))
RECURSIVE InsertSorted(_, _)
InsertSorted(P, sorted) ==
    IF Len(sorted) = 0 THEN <<P>>
    ELSE IF BytesLess(ToBytes(P, FALSE), ToBytes(Head(sorted), FALSE))
         THEN <<P>> \o sorted
         ELSE <<Head(sorted)>> \o InsertSorted(P, Tail(sorted))

\* Mutant: the list is used in the order the caller holds it.
SortKeys_Unsorted(keys) == keys

RECURSIVE SortKeys(_)
SortKeys(keys) ==
    IF Len(keys) = 0 THEN <<>>
    ELSE InsertSorted(keys[Len(keys)], SortKeys(SubSeq(keys, 1, Len(keys) - 1)))

\* The loop over &public_keys[1..]: the first key whose encoding is greater
\* than that of public_keys[0], public_keys[0] itself when there is none.
RECURSIVE FirstGreater(_, _, _)
FirstGreater(sorted, i, first) ==
    IF i > Len(sorted) THEN first
    ELSE IF BytesLess(ToBytes(first, FALSE), ToBytes(sorted[i], FALSE))
         THEN sorted[i]
         ELSE FirstGreater(sorted, i + 1, first)

\* Mutant: no key is exempted when none is greater than the smallest.
SecondPublicKey_OnlyGreater(sorted) ==
    IF FirstGreater(sorted, 2, sorted[1]) = sorted[1]
    THEN 0
    ELSE FirstGreater(sorted, 2, sorted[1])

SecondPublicKey(sorted) == FirstGreater(sorted, 2, sorted[1])

RECURSIVE ConcatCompressed(_)
ConcatCompressed(keys) ==
    IF Len(keys) = 0 THEN <<>>
    ELSE ToBytes(Head(keys), TRUE) \o ConcatCompressed(Tail(keys))

\* Mutant: the smallest key is the exempted one.
KeyCoefficient_ExemptFirst(public_key, sorted) ==
    IF public_key # sorted[1]
    THEN HashToScalar(<<1>> \o ToBytes(public_key, TRUE) \o ConcatCompressed(sorted))
    ELSE 1

\* Mutant: every key is hashed, none is exempted.
KeyCoefficient_HashAll(public_key, sorted) ==
    HashToScalar(<<1>> \o ToBytes(public_key, TRUE) \o ConcatCompressed(sorted))

\* The coefficient the closure computes for one key of the sorted list.
KeyCoefficient(public_key, sorted) ==
    IF public_key # SecondPublicKey(sorted)
    THEN HashToScalar(<<1>> \o ToBytes(public_key, TRUE) \o ConcatCompressed(sorted))
    ELSE 1

\* Mutant: an entry equal to the one before it is left out of the sum.
RECURSIVE AggregateSum_SkipDuplicates(_, _)
AggregateSum_SkipDuplicates(sorted, i) ==
    IF i = 0 THEN PointZero
    ELSE IF i > 1 /\ sorted[i] = sorted[i - 1]
         THEN AggregateSum_SkipDuplicates(sorted, i - 1)
         ELSE PointAdd(AggregateSum_SkipDuplicates(sorted, i - 1),
                       PointMul(sorted[i], KeyCoefficient(sorted[i], sorted)))

\* The for_each over the sorted list, entries 1..i done: the running sum.
RECURSIVE AggregateSum(_, _)
AggregateSum(sorted, i) ==
    IF i = 0 THEN PointZero
    ELSE PointAdd(AggregateSum(sorted, i - 1),
                  PointMul(sorted[i], KeyCoefficient(sorted[i], sorted)))

\* The same loop, entries 1..i done: my_coeff, which starts at zero and is
\* overwritten at every entry equal to my_public_key.
RECURSIVE MyCoefficient(_, _, _)
MyCoefficient(sorted, i, my_public_key) ==
    IF i = 0 THEN 0
    ELSE IF sorted[i] = my_public_key THEN KeyCoefficient(sorted[i], sorted)
    ELSE MyCoefficient(sorted, i - 1, my_public_key)

\* Mutant: an empty list gives the empty sum and the zero coefficient.
key_aggregation_n_EmptySum(public_keys, my_public_key) ==
    LET sorted == SortKeys(public_keys)
    IN  [panic |-> FALSE,
         agg_public_key |-> AggregateSum(sorted, Len(sorted)),
         musig_coefficient |-> MyCoefficient(sorted, Len(sorted), my_public_key)]

\* The result of the call; "panic" for the index out of range of
\* &public_keys[0] on an empty list.
key_aggregation_n(public_keys, my_public_key) ==
    LET sorted == SortKeys(public_keys)
    IN  IF Len(sorted) = 0 THEN [panic |-> TRUE]
        ELSE [panic |-> FALSE,
              agg_public_key |-> AggregateSum(sorted, Len(sorted)),
              musig_coefficient |-> MyCoefficient(sorted, Len(sorted), my_public_key)]

\* ------------------------------------------------------------------------
\* Collaborators of the module (super::ExpandedKeyPair, super::Signature,
\* rand::Rng)
\* ------------------------------------------------------------------------
\* ExpandedKeyPair of the private scalar x: the prefix is the other half of
\* the expanded secret.
KeyPair(x) ==
    [private_key |-> x,
     prefix |-> (3 * x + 2) % GroupOrder,
     public_key |-> GeneratorMul(x)]

\* Signature::k(R, A, message)
K(R, A, message) == HashToScalar(ToBytes(R, TRUE) \o ToBytes(A, TRUE) \o message)

\* Signature::verify: s*G = R + k(R, A, message)*A
Verify(signature, A, message) ==
    GeneratorMul(signature.s)
        = PointAdd(signature.R, PointMul(A, K(signature.R, A, message)))

\* rng.gen::<[u8; 32]>(): the generator hands out its state and moves on.
RngNext(state) == (5 * state + 3) % 8

\* Option<T> is a sequence of at most one T.
None == <<>>
Some(v) == <<v>>
IsSome(opt) == Len(opt) = 1
UnwrapOr(opt, default) == IF Len(opt) = 0 THEN default ELSE opt[1]

Messages == {<<m>> : m \in 1..MaxMsg}

\* ------------------------------------------------------------------------
\* generate_partial_nonces
\* ------------------------------------------------------------------------
\* Mutant: the random bytes are left out of the hash.
NonceScalar_NoRandom(keys, message, random) ==
    HashToScalar(<<2>> \o ScalarToBytes(keys.prefix) \o UnwrapOr(message, <<>>))

\* One slot of the map over [(); NUMBER_OF_NONCES]; random is the 32 bytes
\* drawn for the slot.
NonceScalar(keys, message, random) ==
    HashToScalar(<<2>> \o ScalarToBytes(keys.prefix)
                       \o UnwrapOr(message, <<>>) \o <<random>>)

\* rng is the state of the generator on entry: slot i takes the i-th draw.
RECURSIVE RngDraws(_, _)
RngDraws(rng, count) ==
    IF count = 0 THEN <<>> ELSE <<rng>> \o RngDraws(RngNext(rng), count - 1)

generate_partial_nonces(keys, message, rng) ==
    LET random == RngDraws(rng, NUMBER_OF_NONCES)
        r == [i \in 1..NUMBER_OF_NONCES |-> NonceScalar(keys, message, random[i])]
    IN  [r |-> r, R |-> [i \in 1..NUMBER_OF_NONCES |-> GeneratorMul(r[i])]]

RECURSIVE RngAfter(_, _)
RngAfter(rng, count) == IF count = 0 THEN rng ELSE RngAfter(RngNext(rng), count - 1)

\* ------------------------------------------------------------------------
\* partial_sign
\* ------------------------------------------------------------------------
\* Mutant: each nonce overwrites the sum of the ones before it.
SumNonces_Overwrite(accumulator, nonces_from_other_parties) ==
    IF Len(nonces_from_other_parties) = 0 THEN accumulator
    ELSE [i \in 1..NUMBER_OF_NONCES |->
             PointAdd(accumulator[i],
                      nonces_from_other_parties[Len(nonces_from_other_parties)][i])]

\* Mutant: the other parties' nonces are left out of the sum.
SumNonces_OwnOnly(accumulator, nonces_from_other_parties) == accumulator

\* The fold that sums the public nonces slot by slot, starting from the
\* caller's own my_partial_nonces.R.
RECURSIVE SumNonces(_, _)
SumNonces(accumulator, nonces_from_other_parties) ==
    IF Len(nonces_from_other_parties) = 0 THEN accumulator
    ELSE SumNonces([i \in 1..NUMBER_OF_NONCES |->
                        PointAdd(accumulator[i], Head(nonces_from_other_parties)[i])],
                   Tail(nonces_from_other_parties))

RECURSIVE ConcatUncompressed(_)
ConcatUncompressed(points) ==
    IF Len(points) = 0 THEN <<>>
    ELSE ToBytes(Head(points), FALSE) \o ConcatUncompressed(Tail(points))

\* Mutant: the message is left out of the hash that gives b.
BindingScalar_NoMessage(agg_public_key, R, message) ==
    HashToScalar(<<3>> \o ToBytes(agg_public_key, FALSE) \o ConcatUncompressed(R))

\* b: the hash of the tag 3, the aggregate key, the summed nonces and the
\* message.
BindingScalar(agg_public_key, R, message) ==
    HashToScalar(<<3>> \o ToBytes(agg_public_key, FALSE)
                       \o ConcatUncompressed(R) \o message)

\* Mutant: the secret nonces are added without the binding scalar.
EffectiveNonce_Unbound(R, r, b, i) ==
    <<PointAdd(R[1], PointMul(R[2], b)), ScalarAdd(r[1], r[2]), b>>

\* The fold over R[1..] zipped with r[1..]: the accumulator is
\* (effective_R, effective_r, power of b), slots 2..i done.
RECURSIVE EffectiveNonce(_, _, _, _)
EffectiveNonce(R, r, b, i) ==
    IF i = 1 THEN <<R[1], r[1], b>>
    ELSE LET accumulator == EffectiveNonce(R, r, b, i - 1)
         IN  <<PointAdd(accumulator[1], PointMul(R[i], accumulator[3])),
               ScalarAdd(accumulator[2], ScalarMul(accumulator[3], r[i])),
               ScalarMul(accumulator[2], b)>>

\* Mutant: the signer's musig_coefficient is left out of the partial scalar.
partial_sign_NoCoefficient(nonces_from_other_parties, my_partial_nonces, agg_public_key, my_keypair, message) ==
    LET R == SumNonces(my_partial_nonces.R, nonces_from_other_parties)
        b == BindingScalar(agg_public_key.agg_public_key, R, message)
        effective == EffectiveNonce(R, my_partial_nonces.r, b, NUMBER_OF_NONCES)
        sig_challenge == K(effective[1], agg_public_key.agg_public_key, message)
    IN  [R |-> effective[1],
         my_partial_s |->
             ScalarAdd(ScalarMul(sig_challenge, my_keypair.private_key),
                       effective[2])]

partial_sign(nonces_from_other_parties, my_partial_nonces, agg_public_key, my_keypair, message) ==
    LET R == SumNonces(my_partial_nonces.R, nonces_from_other_parties)
        b == BindingScalar(agg_public_key.agg_public_key, R, message)
        effective == EffectiveNonce(R, my_partial_nonces.r, b, NUMBER_OF_NONCES)
        sig_challenge == K(effective[1], agg_public_key.agg_public_key, message)
    IN  [R |-> effective[1],
         my_partial_s |->
             ScalarAdd(ScalarMul(ScalarMul(sig_challenge,
                                           agg_public_key.musig_coefficient),
                                 my_keypair.private_key),
                       effective[2])]

\* ------------------------------------------------------------------------
\* aggregate_partial_signatures
\* ------------------------------------------------------------------------
\* Mutant: only the first scalar of the slice is summed.
SumScalars_First(scalars) ==
    IF Len(scalars) = 0 THEN 0 ELSE Head(scalars)

RECURSIVE SumScalars(_)
SumScalars(scalars) ==
    IF Len(scalars) = 0 THEN 0
    ELSE ScalarAdd(Head(scalars), SumScalars(Tail(scalars)))

\* Mutant: the result carries the caller's own scalar alone.
aggregate_partial_signatures_OwnScalar(my_partial_sig, partial_sigs_from_other_parties) ==
    [R |-> my_partial_sig.R, s |-> my_partial_sig.my_partial_s]

aggregate_partial_signatures(my_partial_sig, partial_sigs_from_other_parties) ==
    [R |-> my_partial_sig.R,
     s |-> ScalarAdd(SumScalars(partial_sigs_from_other_parties),
                     my_partial_sig.my_partial_s)]

\* ------------------------------------------------------------------------
\* State
\* ------------------------------------------------------------------------
VARIABLES
    ka_keys,      \* key_aggregation_n alone: the key list of the call
    ka_my,        \*   its my_public_key
    ka_out,       \*   Option of its result
    sk,           \* session: the private scalar of each party
    gen_message,  \*   the Option<message> given to generate_partial_nonces
    message,      \*   the message given to partial_sign
    rng,          \*   each party's random generator
    agg,          \*   each party's Option<PublicKeyAgg>
    nonces,       \*   each party's Option<PartialNonces>
    psig,         \*   each party's Option<PartialSignature>
    sig,          \*   each party's Option<Signature>
    peers,        \* single caller: the private scalars of the other parties
    others,       \*   the nonces_from_other_parties of the last partial_sign
    gens,         \*   number of generate_partial_nonces calls so far
    uses,         \*   number of partial_sign calls on the current bundle
    used_for,     \*   the messages the current bundle has signed
    ag_sig,       \* aggregate_partial_signatures alone: my_partial_sig
    ag_others,    \*   the PartialSignatures of the other parties
    ag_out,       \*   Option of its result
    gn_random,    \* generate_partial_nonces alone: the random bytes drawn
    gn_out        \*   the bundles returned so far

vars == <<ka_keys, ka_my, ka_out, sk, gen_message, message, rng, agg, nonces,
          psig, sig, peers, others, gens, uses, used_for, ag_sig, ag_others,
          ag_out, gn_random, gn_out>>

ka_vars == <<ka_keys, ka_my, ka_out>>
session_vars == <<sk, gen_message, message, rng, agg, nonces, psig, sig>>
caller_vars == <<peers, others, gens, uses, used_for>>
ag_vars == <<ag_sig, ag_others, ag_out>>
gn_vars == <<gn_random, gn_out>>

Parties == 1..Len(sk)
PublicKeys == [p \in Parties |-> KeyPair(sk[p]).public_key]

\* The orders in which the members of a set can be listed.
RECURSIVE Orders(_)
Orders(S) ==
    IF S = {} THEN {<<>>}
    ELSE UNION {{<<x>> \o o : o \in Orders(S \ {x})} : x \in S}

Permuted(list, f) == [i \in 1..Len(list) |-> list[f[i]]]

\* The orders in which party p can hold the other parties.
OtherOrders(p) == Orders(Parties \ {p})

NoSession ==
    /\ sk = <<>>
    /\ gen_message = None
    /\ message = <<>>
    /\ rng = <<>>
    /\ agg = <<>>
    /\ nonces = <<>>
    /\ psig = <<>>
    /\ sig = <<>>

NoKeyAggCall ==
    /\ ka_keys = <<>>
    /\ ka_my = PointZero
    /\ ka_out = None

NoCaller ==
    /\ peers = <<>>
    /\ others = <<>>
    /\ gens = 0
    /\ uses = 0
    /\ used_for = {}

NoAggregateCall ==
    /\ ag_sig = [R |-> PointZero, my_partial_s |-> 0]
    /\ ag_others = <<>>
    /\ ag_out = None

NoGenerateCall ==
    /\ gn_random = <<>>
    /\ gn_out = <<>>

\* ------------------------------------------------------------------------
\* key_aggregation_n called on its own
\* ------------------------------------------------------------------------
KeyLists == UNION {[1..k -> Points] : k \in 0..MaxKeys}

InitKeyAgg ==
    /\ ka_keys \in KeyLists
    /\ ka_my \in Points
    /\ ka_out = None
    /\ NoSession
    /\ NoCaller
    /\ NoAggregateCall
    /\ NoGenerateCall

CallKeyAggregation ==
    /\ ka_out = None
    /\ ka_out' = Some(key_aggregation_n(ka_keys, ka_my))
    /\ UNCHANGED <<ka_keys, ka_my, session_vars, caller_vars, ag_vars, gn_vars>>

NextKeyAgg == CallKeyAggregation

SpecKeyAgg == InitKeyAgg /\ [][NextKeyAgg]_vars

\* ------------------------------------------------------------------------
\* A signing session of honest parties
\* ------------------------------------------------------------------------
\* Non-decreasing lists of private scalars: the parties are interchangeable,
\* each holds the key list in an order of its own (KeyAggregation).
PrivateKeyLists ==
    UNION {{l \in [1..n -> 1..MaxPriv] : \A i \in 1..(n - 1) : l[i] <= l[i + 1]} :
           n \in 1..MaxN}

Init ==
    /\ sk \in PrivateKeyLists
    /\ message \in Messages
    /\ gen_message \in {None} \cup {Some(m) : m \in Messages}
    /\ \E seed \in 0..(MaxSeed - 1) : rng = [p \in 1..Len(sk) |-> (seed + 2 * p) % 8]
    /\ agg = [p \in 1..Len(sk) |-> None]
    /\ nonces = [p \in 1..Len(sk) |-> None]
    /\ psig = [p \in 1..Len(sk) |-> None]
    /\ sig = [p \in 1..Len(sk) |-> None]
    /\ NoKeyAggCall
    /\ NoAggregateCall
    /\ NoGenerateCall
    /\ NoCaller

KeyAggregation(p) ==
    /\ agg[p] = None
    /\ \E f \in Orders(Parties) :
          agg' = [agg EXCEPT ![p] =
                     Some(key_aggregation_n(Permuted(PublicKeys, f), PublicKeys[p]))]
    /\ UNCHANGED <<sk, gen_message, message, rng, nonces, psig, sig, ka_vars, caller_vars,
                   ag_vars, gn_vars>>

GenerateNonces(p) ==
    /\ nonces[p] = None
    /\ nonces' = [nonces EXCEPT ![p] =
                     Some(generate_partial_nonces(KeyPair(sk[p]), gen_message, rng[p]))]
    /\ rng' = [rng EXCEPT ![p] = RngAfter(rng[p], NUMBER_OF_NONCES)]
    /\ UNCHANGED <<sk, gen_message, message, agg, psig, sig, ka_vars, caller_vars,
                   ag_vars, gn_vars>>

\* Round 2 of party p, once the public nonces of all parties are out.
PartialSign(p) ==
    /\ psig[p] = None
    /\ agg[p] # None
    /\ \A q \in Parties : nonces[q] # None
    /\ \E o \in OtherOrders(p) :
          psig' = [psig EXCEPT ![p] =
                      Some(partial_sign([i \in 1..Len(o) |-> nonces[o[i]][1].R],
                                        nonces[p][1], agg[p][1], KeyPair(sk[p]),
                                        message))]
    /\ UNCHANGED <<sk, gen_message, message, rng, agg, nonces, sig, ka_vars, caller_vars,
                   ag_vars, gn_vars>>

Aggregate(p) ==
    /\ sig[p] = None
    /\ \A q \in Parties : psig[q] # None
    /\ \E o \in OtherOrders(p) :
          sig' = [sig EXCEPT ![p] =
                     Some(aggregate_partial_signatures(
                              psig[p][1],
                              [i \in 1..Len(o) |-> psig[o[i]][1].my_partial_s]))]
    /\ UNCHANGED <<sk, gen_message, message, rng, agg, nonces, psig, ka_vars, caller_vars,
                   ag_vars, gn_vars>>

Next ==
    \/ \E p \in Parties : KeyAggregation(p)
    \/ \E p \in Parties : GenerateNonces(p)
    \/ \E p \in Parties : PartialSign(p)
    \/ \E p \in Parties : Aggregate(p)

Spec == Init /\ [][Next]_vars

\* ------------------------------------------------------------------------
\* partial_sign called on its own
\* ------------------------------------------------------------------------
\* The other parties around the caller: party j holds the private scalar
\* PeerScalar(j) and a generator of its own.
PeerScalar(j) == (j % (GroupOrder - 1)) + 1
PeerLists == {[j \in 1..n |-> PeerScalar(j)] : n \in 0..MaxOthers}
PeerNonces(j) ==
    generate_partial_nonces(KeyPair(peers[j]), gen_message, (2 * j + 1) % 8)

\* The keys of the caller and of the other parties, the caller's first.
CallerKeys ==
    <<KeyPair(sk[1]).public_key>>
        \o [j \in 1..Len(peers) |-> KeyPair(peers[j]).public_key]

\* The lists of nonces the caller can have collected: some of the other
\* parties' public nonces, in any order.
NonceLists ==
    UNION {{[i \in 1..Len(o) |-> PeerNonces(o[i]).R] : o \in Orders(S)} :
           S \in SUBSET (1..Len(peers))}

InitSign ==
    /\ sk \in {<<x>> : x \in 1..MaxPriv}
    /\ peers \in PeerLists
    /\ message \in Messages
    /\ gen_message \in {None} \cup {Some(m) : m \in Messages}
    /\ \E seed \in 0..(MaxSeed - 1) :
          /\ rng = <<RngAfter(seed, NUMBER_OF_NONCES)>>
          /\ nonces = <<Some(generate_partial_nonces(KeyPair(sk[1]), gen_message, seed))>>
    /\ agg = <<Some(key_aggregation_n(CallerKeys, KeyPair(sk[1]).public_key))>>
    /\ others \in NonceLists
    /\ psig = <<None>>
    /\ sig = <<None>>
    /\ gens = 1
    /\ uses = 0
    /\ used_for = {}
    /\ NoKeyAggCall
    /\ NoAggregateCall
    /\ NoGenerateCall

CallPartialSign ==
    /\ psig[1] = None
    /\ psig' = <<Some(partial_sign(others, nonces[1][1], agg[1][1], KeyPair(sk[1]), message))>>
    /\ uses' = uses + 1
    /\ used_for' = used_for \cup {message}
    /\ UNCHANGED <<sk, gen_message, message, rng, agg, nonces, sig, peers, others,
                   gens, ka_vars, ag_vars, gn_vars>>

NextSign == CallPartialSign

SpecSign == InitSign /\ [][NextSign]_vars

\* ------------------------------------------------------------------------
\* One party calling the four functions in any order the types allow
\* ------------------------------------------------------------------------
InitCaller ==
    /\ sk \in {<<x>> : x \in 1..MaxPriv}
    /\ peers \in PeerLists
    /\ gen_message \in {None} \cup {Some(m) : m \in Messages}
    /\ message = <<>>
    /\ rng = <<0>>
    /\ agg = <<None>>
    /\ nonces = <<None>>
    /\ psig = <<None>>
    /\ sig = <<None>>
    /\ others = <<>>
    /\ gens = 0
    /\ uses = 0
    /\ used_for = {}
    /\ NoKeyAggCall
    /\ NoAggregateCall
    /\ NoGenerateCall

CallerKeyAggregation ==
    /\ agg[1] = None
    /\ sig[1] = None
    /\ agg' = <<Some(key_aggregation_n(CallerKeys, KeyPair(sk[1]).public_key))>>
    /\ UNCHANGED <<sk, gen_message, message, rng, nonces, psig, sig, ka_vars,
                   caller_vars, ag_vars, gn_vars>>

\* generate_partial_nonces takes no session: it returns a fresh bundle at
\* every call.
CallerGenerateNonces ==
    /\ gens < MaxGens
    /\ sig[1] = None
    /\ nonces' = <<Some(generate_partial_nonces(KeyPair(sk[1]), gen_message, rng[1]))>>
    /\ rng' = <<RngAfter(rng[1], NUMBER_OF_NONCES)>>
    /\ gens' = gens + 1
    /\ uses' = 0
    /\ used_for' = {}
    /\ UNCHANGED <<sk, gen_message, message, agg, psig, sig, peers, others, ka_vars,
                   ag_vars, gn_vars>>

\* Mutant: partial_sign takes an Option of the bundle and signs with zero
\* nonces when there is none.
CallerPartialSign_DefaultNonces ==
    /\ agg[1] # None
    /\ uses < MaxUses
    /\ sig[1] = None
    /\ \E k \in 0..Len(peers), m \in Messages :
          /\ others' = [j \in 1..k |-> PeerNonces(j).R]
          /\ message' = m
          /\ psig' = <<Some(partial_sign(
                               others',
                               UnwrapOr(nonces[1], [r |-> <<0, 0>>,
                                                    R |-> <<PointZero, PointZero>>]),
                               agg[1][1], KeyPair(sk[1]), m))>>
          /\ used_for' = used_for \cup {m}
    /\ uses' = uses + 1
    /\ UNCHANGED <<sk, gen_message, rng, agg, nonces, sig, peers, gens, ka_vars,
                   ag_vars, gn_vars>>

\* partial_sign needs a PartialNonces and a PublicKeyAgg, nothing else: the
\* caller passes (a copy of) its bundle, the nonces of the first k other
\* parties and any message.
CallerPartialSign ==
    /\ nonces[1] # None
    /\ agg[1] # None
    /\ uses < MaxUses
    /\ sig[1] = None
    /\ \E k \in 0..Len(peers), m \in Messages :
          /\ others' = [j \in 1..k |-> PeerNonces(j).R]
          /\ message' = m
          /\ psig' = <<Some(partial_sign(others', nonces[1][1], agg[1][1], KeyPair(sk[1]), m))>>
          /\ used_for' = used_for \cup {m}
    /\ uses' = uses + 1
    /\ UNCHANGED <<sk, gen_message, rng, agg, nonces, sig, peers, gens, ka_vars,
                   ag_vars, gn_vars>>

\* The partial scalar of the other party j, signing honestly over all the
\* nonces and the caller's message.
PeerPartialSign(j) ==
    partial_sign(<<nonces[1][1].R>> \o [i \in 1..(Len(peers) - 1) |->
                                           PeerNonces(IF i < j THEN i ELSE i + 1).R],
                 PeerNonces(j),
                 key_aggregation_n(CallerKeys, KeyPair(peers[j]).public_key),
                 KeyPair(peers[j]), message)

\* aggregate_partial_signatures needs a PartialSignature, nothing else.
CallerAggregate ==
    /\ psig[1] # None
    /\ sig[1] = None
    /\ \E k \in 0..Len(peers) :
          sig' = <<Some(aggregate_partial_signatures(
                            psig[1][1],
                            [j \in 1..k |-> PeerPartialSign(j).my_partial_s]))>>
    /\ UNCHANGED <<sk, gen_message, message, rng, agg, nonces, psig, ka_vars,
                   caller_vars, ag_vars, gn_vars>>

NextCaller ==
    \/ CallerKeyAggregation
    \/ CallerGenerateNonces
    \/ CallerPartialSign
    \/ CallerAggregate

SpecCaller == InitCaller /\ [][NextCaller]_vars

\* ------------------------------------------------------------------------
\* aggregate_partial_signatures called on its own
\* ------------------------------------------------------------------------
\* The PartialSignatures the other parties can hold: any scalar, and either
\* the caller's R or another point.
OtherSignatures(R) ==
    [R : {R, PointAdd(R, Generator)}, my_partial_s : Scalars]

InitAggregate ==
    /\ ag_sig \in [R : Points, my_partial_s : Scalars]
    /\ ag_others \in UNION {[1..n -> OtherSignatures(ag_sig.R)] : n \in 0..MaxSigs}
    /\ ag_out = None
    /\ NoKeyAggCall
    /\ NoSession
    /\ NoCaller
    /\ NoGenerateCall

\* The slice the caller passes: the scalars of the other PartialSignatures.
PartialScalars(signatures) ==
    [i \in 1..Len(signatures) |-> signatures[i].my_partial_s]

CallAggregate ==
    /\ ag_out = None
    /\ ag_out' = Some(aggregate_partial_signatures(ag_sig, PartialScalars(ag_others)))
    /\ UNCHANGED <<ag_sig, ag_others, ka_vars, session_vars, caller_vars, gn_vars>>

NextAggregate == CallAggregate

SpecAggregate == InitAggregate /\ [][NextAggregate]_vars

\* ------------------------------------------------------------------------
\* generate_partial_nonces called on its own, several times on one rng
\* ------------------------------------------------------------------------
RngStates == 0..7

InitGenerate ==
    /\ sk \in {<<x>> : x \in 1..MaxPriv}
    /\ gen_message \in {None} \cup {Some(m) : m \in Messages}
    /\ rng \in {<<state>> : state \in RngStates}
    /\ gn_random = <<>>
    /\ gn_out = <<>>
    /\ message = <<>>
    /\ agg = <<None>>
    /\ nonces = <<None>>
    /\ psig = <<None>>
    /\ sig = <<None>>
    /\ NoKeyAggCall
    /\ NoCaller
    /\ NoAggregateCall

\* gn_random records what rng.gen::<[u8; 32]>() returned, slot by slot.
CallGenerateNonces ==
    /\ Len(gn_out) < MaxCalls
    /\ gn_out' = Append(gn_out,
                        generate_partial_nonces(KeyPair(sk[1]), gen_message, rng[1]))
    /\ gn_random' = gn_random \o RngDraws(rng[1], NUMBER_OF_NONCES)
    /\ rng' = <<RngAfter(rng[1], NUMBER_OF_NONCES)>>
    /\ UNCHANGED <<sk, gen_message, message, agg, nonces, psig, sig, ka_vars,
                   caller_vars, ag_vars>>

NextGenerate == CallGenerateNonces

SpecGenerate == InitGenerate /\ [][NextGenerate]_vars

\* ------------------------------------------------------------------------
\* Properties of key_aggregation_n (SpecKeyAgg)
\* ------------------------------------------------------------------------
Range(list) == {list[i] : i \in 1..Len(list)}

\* The permutations of the key lists of each length.
KeyOrders == [n \in 0..MaxKeys |-> Orders(1..n)]

\* The number of points whose encoding is smaller than that of P.
EncodingRank ==
    [P \in Points |->
        Cardinality({Q \in Points :
                        BytesLess(ToBytes(Q, FALSE), ToBytes(P, FALSE))})]

EncodingLess(P, Q) == EncodingRank[P] < EncodingRank[Q]

\* The list in ascending order of the encodings, stated without the sort:
\* position k holds the key that has fewer than k entries below it and at
\* least k entries not above it.
Ascending(list) ==
    [k \in 1..Len(list) |->
        CHOOSE P \in Range(list) :
            /\ Cardinality({i \in 1..Len(list) : EncodingLess(list[i], P)}) < k
            /\ Cardinality({i \in 1..Len(list) : ~EncodingLess(P, list[i])}) >= k]

\* The second distinct key: exactly one key value of the list is smaller.
SecondDistinctKeys(list) ==
    {P \in Range(list) :
        Cardinality({Q \in Range(list) : EncodingLess(Q, P)}) = 1}

\* H(1 || key || all keys in sorted order)
HashCoefficient(P, list) ==
    HashToScalar(<<1>> \o ToBytes(P, TRUE) \o ConcatCompressed(Ascending(list)))

ExpectedCoefficient(P, list) ==
    IF P \in SecondDistinctKeys(list) THEN 1 ELSE HashCoefficient(P, list)

RECURSIVE ExpectedSum(_, _)
ExpectedSum(list, i) ==
    IF i = 0 THEN PointZero
    ELSE PointAdd(ExpectedSum(list, i - 1),
                  PointMul(list[i], ExpectedCoefficient(list[i], list)))

\* C2: key_aggregation_n returns the same PublicKeyAgg (agg_public_key and
\* musig_coefficient) for every permutation of the key list, my_public_key
\* being the same.
C2_OrderIndependence ==
    IsSome(ka_out) =>
        \A list \in {Permuted(ka_keys, o) : o \in KeyOrders[Len(ka_keys)]} :
            key_aggregation_n(list, ka_my) = ka_out[1]

C2_Witness ==
    /\ IsSome(ka_out)
    /\ Len(ka_keys) = 3
    /\ Cardinality(Range(ka_keys)) = 3
    /\ ka_keys # Ascending(ka_keys)
    /\ ka_my \in Range(ka_keys)
    /\ ka_my \notin SecondDistinctKeys(ka_keys)

\* C3: in a list with at least two distinct keys, the second distinct key
\* (and no key of another value) is given the coefficient 1 unhashed; every
\* other key, the smallest included, is given H(1 || key || all keys in
\* sorted order). Seen on the caller's own coefficient and on the sum.
C3_SecondKeyCoefficient ==
    (IsSome(ka_out) /\ Cardinality(Range(ka_keys)) >= 2) =>
        /\ Cardinality(SecondDistinctKeys(ka_keys)) = 1
        /\ ka_my \in Range(ka_keys) =>
               ka_out[1].musig_coefficient = ExpectedCoefficient(ka_my, ka_keys)
        /\ ka_out[1].agg_public_key = ExpectedSum(ka_keys, Len(ka_keys))

C3_Witness ==
    /\ IsSome(ka_out)
    /\ Cardinality(Range(ka_keys)) = 3
    /\ ka_my = Ascending(ka_keys)[1]
    /\ ka_out[1].musig_coefficient = HashCoefficient(ka_my, ka_keys)
    /\ ka_out[1].musig_coefficient # 1

\* C9 as claimed: with my_public_key absent from the key list, the call
\* fails and returns no PublicKeyAgg.
C9_AbsentKeyFails ==
    (IsSome(ka_out) /\ Len(ka_keys) > 0 /\ ka_my \notin Range(ka_keys)) =>
        ka_out[1].panic

\* ------------------------------------------------------------------------
\* Properties of the honest session (Spec)
\* ------------------------------------------------------------------------
\* C1: the signature any party aggregates satisfies
\* s*G = R + k(R, agg_public_key, m)*agg_public_key.
C1_RoundTrip ==
    \A p \in Parties :
        IsSome(sig[p]) => Verify(sig[p][1], agg[p][1].agg_public_key, message)

C1_Witness ==
    /\ Len(sk) >= 2
    /\ sk[1] # sk[2]
    /\ \A p \in Parties : IsSome(sig[p])
    /\ \E p \in Parties : agg[p][1].musig_coefficient \notin {0, 1}

\* C4: a single party: the aggregate key is its key with coefficient 1, and
\* the signature is R = R[0] + b*R[1], s = k(R, X, m)*x + r[0] + b*r[1],
\* which verifies under X.
C4_SingleParty ==
    (Len(sk) = 1 /\ IsSome(sig[1])) =>
        LET X == KeyPair(sk[1]).public_key
            own == nonces[1][1]
            b == BindingScalar(X, own.R, message)
            R == PointAdd(own.R[1], PointMul(own.R[2], b))
        IN  /\ agg[1][1].agg_public_key = X
            /\ agg[1][1].musig_coefficient = 1
            /\ sig[1][1].R = R
            /\ sig[1][1].s =
                   ScalarAdd(ScalarMul(K(R, X, message), sk[1]),
                             ScalarAdd(own.r[1], ScalarMul(b, own.r[2])))
            /\ Verify(sig[1][1], X, message)

C4_Witness ==
    /\ Len(sk) = 1
    /\ IsSome(sig[1])
    /\ nonces[1][1].r[1] # nonces[1][1].r[2]

\* C5: all parties' partial signatures carry the same effective nonce R.
C5_SameEffectiveNonce ==
    \A p, q \in Parties :
        (IsSome(psig[p]) /\ IsSome(psig[q])) => psig[p][1].R = psig[q][1].R

C5_Witness ==
    /\ Len(sk) >= 2
    /\ \A p \in Parties : IsSome(psig[p])
    /\ nonces[1][1].R # nonces[2][1].R

\* The nonces were generated for another message than the one signed.
MessageChanged == IsSome(gen_message) /\ gen_message[1] # message

\* C7 as claimed: after the message changed between nonce generation and
\* partial signing, the signature verifies neither for the old nor for the
\* new message.
C7_ChangedMessageFails ==
    \A p \in Parties :
        (MessageChanged /\ IsSome(sig[p])) =>
            /\ ~Verify(sig[p][1], agg[p][1].agg_public_key, message)
            /\ ~Verify(sig[p][1], agg[p][1].agg_public_key, gen_message[1])

\* C7 amended: the signature verifies for the message given to partial_sign;
\* it verifies for the message given to generate_partial_nonces exactly when
\* the two challenges agree on the aggregate key.
C7_ChangedMessageVerifies ==
    \A p \in Parties :
        (MessageChanged /\ IsSome(sig[p])) =>
            LET A == agg[p][1].agg_public_key
                R == sig[p][1].R
            IN  /\ Verify(sig[p][1], A, message)
                /\ Verify(sig[p][1], A, gen_message[1])
                       <=> PointMul(A, K(R, A, message))
                               = PointMul(A, K(R, A, gen_message[1]))

C7_Witness ==
    /\ MessageChanged
    /\ Len(sk) >= 2
    /\ \A p \in Parties : IsSome(sig[p])
    /\ ~Verify(sig[1][1], agg[1][1].agg_public_key, gen_message[1])

\* ------------------------------------------------------------------------
\* Properties of partial_sign called on its own (SpecSign)
\* ------------------------------------------------------------------------
\* C6: partial_sign returns the same PartialSignature (R and my_partial_s)
\* for every permutation of nonces_from_other_parties.
C6_NonceOrderIndependence ==
    (IsSome(psig) /\ IsSome(psig[1])) =>
        \A o \in Orders(1..Len(others)) :
            partial_sign(Permuted(others, o), nonces[1][1], agg[1][1],
                         KeyPair(sk[1]), message) = psig[1][1]

C6_Witness ==
    /\ IsSome(psig)
    /\ IsSome(psig[1])
    /\ Len(others) = 2
    /\ others[1] # others[2]
    /\ psig[1][1].R # PointZero

\* ------------------------------------------------------------------------
\* Properties of the single caller (SpecCaller)
\* ------------------------------------------------------------------------
\* C8 as claimed: a nonce bundle is consumed by at most one partial_sign
\* call, for one message; a second call is rejected.
C8_SingleUse == uses <= 1 /\ Cardinality(used_for) <= 1

\* C8 amended: partial_sign called again with a copy of a bundle it has
\* signed with is not rejected: it returns the partial signature of the new
\* call, R = R[0] + b*R[1], my_partial_s = e*a*x + r[0] + b*r[1], over the
\* same secret pair r.
C8_CopiedBundleSignsAgain ==
    [][(uses >= 1 /\ uses' = uses + 1) =>
          LET own == nonces[1][1]
              A == agg[1][1].agg_public_key
              R == SumNonces(own.R, others')
              b == BindingScalar(A, R, message')
              R_eff == PointAdd(R[1], PointMul(R[2], b))
              e == K(R_eff, A, message')
          IN  /\ nonces' = nonces
              /\ psig'[1][1].R = R_eff
              /\ psig'[1][1].my_partial_s =
                     ScalarAdd(ScalarMul(ScalarMul(e, agg[1][1].musig_coefficient),
                                         sk[1]),
                               ScalarAdd(own.r[1], ScalarMul(b, own.r[2])))]_vars

C8_Witness ==
    /\ uses = 2
    /\ Cardinality(used_for) = 2
    /\ IsSome(psig[1])
    /\ Len(others) >= 1

RECURSIVE IntegerSum(_, _)
IntegerSum(list, i) == IF i = 0 THEN 0 ELSE IntegerSum(list, i - 1) + list[i]

\* The other PartialSignatures as they would be if all carried the R of R.
WithSameR(signatures, R) ==
    [i \in 1..Len(signatures) |-> [signatures[i] EXCEPT !.R = R]]

\* C11: aggregate_partial_signatures always returns a Signature; its R is
\* the caller's own PartialSignature.R, its s is the caller's my_partial_s
\* plus the sum of the scalars of the slice (nothing added for an empty
\* slice), whatever the order of the slice and whatever R the other
\* parties' partial signatures carry.
C11_AggregateContract ==
    IsSome(ag_out) =>
        /\ ag_out[1] \in [R : Points, s : Scalars]
        /\ ag_out[1].R = ag_sig.R
        /\ ag_out[1].s =
               (ag_sig.my_partial_s
                    + IntegerSum(PartialScalars(ag_others), Len(ag_others)))
                   % GroupOrder
        /\ \A o \in Orders(1..Len(ag_others)) :
               aggregate_partial_signatures(
                   ag_sig, PartialScalars(Permuted(ag_others, o))) = ag_out[1]
        /\ aggregate_partial_signatures(
               ag_sig, PartialScalars(WithSameR(ag_others, ag_sig.R))) = ag_out[1]

C11_Witness ==
    /\ IsSome(ag_out)
    /\ Len(ag_others) = 2
    /\ ag_others[1].R # ag_sig.R
    /\ ag_others[2].R = ag_sig.R
    /\ ag_others[1].my_partial_s # ag_others[2].my_partial_s
    /\ ag_others[2].my_partial_s # 0
    /\ ag_sig.my_partial_s + ag_others[1].my_partial_s + ag_others[2].my_partial_s
           > GroupOrder

\* ------------------------------------------------------------------------
\* Properties of partial_sign (SpecSign)
\* ------------------------------------------------------------------------
\* The sum of slot j of the first i nonce arrays of a list.
RECURSIVE SlotSum(_, _, _)
SlotSum(list, j, i) ==
    IF i = 0 THEN PointZero ELSE PointAdd(SlotSum(list, j, i - 1), list[i][j])

\* R[j] over all parties: the caller's own bundle and the others' nonces.
AllNonces == <<nonces[1][1].R>> \o others
SummedNonce(j) == SlotSum(AllNonces, j, Len(AllNonces))

\* b = H(3 || aggregate key || R[0] || R[1] || message)
ExpectedB ==
    HashToScalar(<<3>> \o ToBytes(agg[1][1].agg_public_key, FALSE)
                       \o ToBytes(SummedNonce(1), FALSE)
                       \o ToBytes(SummedNonce(2), FALSE)
                       \o message)

ExpectedEffectiveR == PointAdd(SummedNonce(1), PointMul(SummedNonce(2), ExpectedB))

ExpectedEffectiveScalar ==
    (nonces[1][1].r[1] + ExpectedB * nonces[1][1].r[2]) % GroupOrder

ExpectedChallenge == K(ExpectedEffectiveR, agg[1][1].agg_public_key, message)

\* C12: partial_sign returns R = R[0] + b*R[1] and
\* my_partial_s = e * musig_coefficient * private_key + r[0] + b*r[1], with
\* R[j] the slot-wise sum of the public nonces of all parties, b the hash of
\* (3, aggregate key, R[0], R[1], message), r the caller's own secret nonces
\* and e = k(R, aggregate key, message).
C12_PartialSignFormula ==
    IsSome(psig[1]) =>
        psig[1][1] =
            [R |-> ExpectedEffectiveR,
             my_partial_s |->
                 (ExpectedChallenge * agg[1][1].musig_coefficient
                      * KeyPair(sk[1]).private_key
                      + ExpectedEffectiveScalar) % GroupOrder]

C12_Witness ==
    /\ IsSome(psig[1])
    /\ Len(others) = 2
    /\ ExpectedB \notin {0, 1}
    /\ ExpectedChallenge \notin {0, 1}
    /\ agg[1][1].musig_coefficient \notin {0, 1}
    /\ nonces[1][1].r[2] # 0

\* ------------------------------------------------------------------------
\* More properties of key_aggregation_n (SpecKeyAgg)
\* ------------------------------------------------------------------------
\* The coefficient of a key of the list: 1 for the second distinct key and,
\* in a list of equal keys, for that key; the hash for every other key.
AppliedCoefficient(P, list) ==
    IF Cardinality(Range(list)) = 1 THEN 1 ELSE ExpectedCoefficient(P, list)

\* The x with P = x*G.
DiscreteLog(P) == CHOOSE x \in Scalars : GeneratorMul(x) = P

\* Sum of coefficient_i * key_i over the entries 1..i of the list as given.
RECURSIVE WeightedKeySum(_, _)
WeightedKeySum(list, i) ==
    IF i = 0 THEN PointZero
    ELSE PointAdd(WeightedKeySum(list, i - 1),
                  PointMul(list[i], AppliedCoefficient(list[i], list)))

\* Sum of coefficient_i * x_i over the entries 1..i, an integer.
RECURSIVE WeightedLogSum(_, _)
WeightedLogSum(list, i) ==
    IF i = 0 THEN 0
    ELSE WeightedLogSum(list, i - 1)
             + AppliedCoefficient(list[i], list) * DiscreteLog(list[i])

\* C13: agg_public_key is the sum over every entry of the key list, each
\* duplicate counted, of coefficient_i * key_i; musig_coefficient is the
\* coefficient that sum applies to the entries equal to my_public_key; and
\* with key_i = x_i*G, agg_public_key = (sum of coefficient_i * x_i)*G.
C13_WeightedSum ==
    (IsSome(ka_out) /\ Len(ka_keys) > 0) =>
        /\ ka_out[1].agg_public_key = WeightedKeySum(ka_keys, Len(ka_keys))
        /\ ka_my \in Range(ka_keys) =>
               ka_out[1].musig_coefficient = AppliedCoefficient(ka_my, ka_keys)
        /\ ka_out[1].agg_public_key =
               GeneratorMul(WeightedLogSum(ka_keys, Len(ka_keys)) % GroupOrder)

C13_Witness ==
    /\ IsSome(ka_out)
    /\ Len(ka_keys) = 3
    /\ Cardinality(Range(ka_keys)) = 2
    /\ ka_keys[1] = ka_keys[3]
    /\ ka_my = ka_keys[1]
    /\ PointZero \notin Range(ka_keys)
    /\ AppliedCoefficient(ka_my, ka_keys) \notin {0, 1}
    /\ ka_out[1].agg_public_key # PointZero

\* ------------------------------------------------------------------------
\* Properties of generate_partial_nonces (SpecGenerate)
\* ------------------------------------------------------------------------
\* The slots of all the calls so far, numbered in the order they drew their
\* random bytes: slot i of call k is number NUMBER_OF_NONCES*(k - 1) + i.
DrawnSlots == 1..Len(gn_random)
CallOfSlot(n) == ((n - 1) \div NUMBER_OF_NONCES) + 1
IndexOfSlot(n) == ((n - 1) % NUMBER_OF_NONCES) + 1
SecretNonce(n) == gn_out[CallOfSlot(n)].r[IndexOfSlot(n)]

\* What is hashed for a slot: 2 || prefix || message or nothing || random.
NonceHashInput(random) ==
    <<2>> \o ScalarToBytes(KeyPair(sk[1]).prefix)
          \o (IF IsSome(gen_message) THEN gen_message[1] ELSE <<>>)
          \o <<random>>

\* C14: every bundle returned has exactly 2 slots with R[i] = r[i]*G; each
\* r[i] is the hash of (2, prefix, message or nothing, the random bytes
\* drawn for that slot alone), and no two slots of the calls made with one
\* key and message hash the same random bytes: their secret nonces are the
\* hashes of different inputs.
C14_NonceBundles ==
    /\ Len(gn_random) = NUMBER_OF_NONCES * Len(gn_out)
    /\ \A k \in 1..Len(gn_out) :
          /\ DOMAIN gn_out[k].r = 1..2
          /\ DOMAIN gn_out[k].R = 1..2
          /\ \A i \in 1..2 : gn_out[k].R[i] = GeneratorMul(gn_out[k].r[i])
    /\ \A n \in DrawnSlots :
          SecretNonce(n) = HashToScalar(NonceHashInput(gn_random[n]))
    /\ \A n, m \in DrawnSlots :
          n # m => NonceHashInput(gn_random[n]) # NonceHashInput(gn_random[m])

C14_Witness ==
    /\ Len(gn_out) = 2
    /\ IsSome(gen_message)
    /\ gn_out[1].r[1] # gn_out[2].r[1]
    /\ gn_out[1].r[2] # gn_out[2].r[2]
    /\ gn_out[1].r[1] # gn_out[1].r[2]
    /\ gn_out[1].R # gn_out[2].R

\* ------------------------------------------------------------------------
\* More properties of the honest session (Spec)
\* ------------------------------------------------------------------------
\* What party q gets from the aggregation: its own PartialSignature and the
\* scalars of the other parties in the order o.
AggregatedBy(q, o) ==
    aggregate_partial_signatures(
        psig[q][1], [i \in 1..Len(o) |-> psig[o[i]][1].my_partial_s])

\* C15: in an honest session the Signature is the same (R and s) whichever
\* party aggregates: the Signatures held by any two parties are equal, and
\* equal to what every other party would get from its own PartialSignature
\* and the other parties' scalars.
C15_SameSignature ==
    \A p \in Parties :
        IsSome(sig[p]) =>
            \A q \in Parties :
                /\ IsSome(sig[q]) => sig[q] = sig[p]
                /\ \A o \in OtherOrders(q) : AggregatedBy(q, o) = sig[p][1]

C15_Witness ==
    /\ Len(sk) = 2
    /\ sk[1] # sk[2]
    /\ IsSome(sig[1])
    /\ IsSome(sig[2])
    /\ psig[1][1].my_partial_s # psig[2][1].my_partial_s
    /\ psig[2][1].my_partial_s # 0
    /\ psig[1][1].my_partial_s # 0

\* ------------------------------------------------------------------------
\* The edges of key_aggregation_n (SpecKeyAgg)
\* ------------------------------------------------------------------------
\* C16: when all the keys of a non-empty list are equal to X, no key being
\* greater than the smallest, the exempted key is X itself: every key gets
\* the coefficient 1 and none the hash, agg_public_key = N*X for the N
\* entries, and musig_coefficient = 1 when my_public_key = X.
C16_EqualKeys ==
    (IsSome(ka_out) /\ Cardinality(Range(ka_keys)) = 1) =>
        LET X == ka_keys[1]
            sorted == SortKeys(ka_keys)
        IN  /\ SecondPublicKey(sorted) = X
            /\ \A i \in 1..Len(sorted) : KeyCoefficient(sorted[i], sorted) = 1
            /\ ka_out[1].agg_public_key = PointMul(X, Len(ka_keys))
            /\ ka_my = X => ka_out[1].musig_coefficient = 1

C16_Witness ==
    /\ IsSome(ka_out)
    /\ Len(ka_keys) = 3
    /\ Cardinality(Range(ka_keys)) = 1
    /\ ka_keys[1] # PointZero
    /\ ka_my = ka_keys[1]
    /\ HashCoefficient(ka_keys[1], ka_keys) \notin {0, 1}

\* C17: the call on an empty key list returns no PublicKeyAgg, it aborts
\* with nothing computed; the call on a non-empty list returns a
\* PublicKeyAgg.
C17_EmptyListAborts ==
    IsSome(ka_out) =>
        IF Len(ka_keys) = 0
        THEN ka_out[1] = [panic |-> TRUE]
        ELSE /\ ~ka_out[1].panic
             /\ ka_out[1].agg_public_key \in Points
             /\ ka_out[1].musig_coefficient \in Scalars

C17_Witness ==
    /\ IsSome(ka_out)
    /\ Len(ka_keys) = 0
    /\ ka_out[1].panic

====
